---- MODULE Spec2Model ----
(***************************************************************************)
(* Soma browser extension: the settings record kept in chrome.storage,     *)
(* the background worker's UPDATE_SETTINGS handler, and the page           *)
(* controller of the content script (processPageWithAI with its triggers,  *)
(* the DOM mutator and the word selector / translator it calls).           *)
(***************************************************************************)
EXTENDS Integers, Sequences, FiniteSets, TLC

VARIABLES
  storage,          \* chrome.storage.local[SETTINGS_KEY]: <<>> (absent) or <<record>>
  reqs,             \* UPDATE_SETTINGS requests the background worker is handling
  replies,          \* sendResponse messages in flight to the senders
  sent,             \* how many UPDATE_SETTINGS requests were sent
  tabQueue,         \* SETTINGS_CHANGED messages in flight to the tab's content script
  delivered,        \* history: <<>> or the isEnabled of the SETTINGS_CHANGED received last
  loaded,           \* the content script's top-level code has run
  domReadyPending,  \* a DOMContentLoaded listener is registered and has not fired
  observerAttached, \* mutationObserver.observe was called
  isProcessed,      \* content script flag
  isProcessing,     \* content script flag
  currentSettings,  \* content script: <<>> (null) or <<record>>
  dom,              \* children of document.body, in document order
  page0,            \* history: the page as it was before the content script ran
  runs,             \* processPageWithAI invocations that passed the guards and have not returned
  ended,            \* history: what the run that returned last did and left behind
  timers,           \* ids of setTimeout timers that are pending
  mutationTimeout,  \* content script: 0 (null) or the id of the timer set last
  lastTrigger,      \* history: the trigger handled last and how many runs it started
  call,             \* the library function called on its own last: its name and arguments
  returned,         \* <<>> or what that call returned
  timerAge,         \* for each pending timer, the seconds since it was set (up to the delay)
  quiet,            \* history: the seconds since the observer last set a timer (up to the delay)
  popup,            \* the popup component: its position, its state hooks and what it shows
  tooltip,          \* the Tooltip component's state
  pointer,          \* 0 or the position in dom of the marker under the mouse pointer
  clicks,           \* handleClick invocations that await getExampleSentense
  clicked           \* history: the handleClick invocations that have returned

vars == <<storage, reqs, replies, sent, tabQueue, delivered, loaded, domReadyPending,
          observerAttached, isProcessed, isProcessing, currentSettings, dom,
          page0, runs, ended, timers, mutationTimeout, lastTrigger, call, returned,
          timerAge, quiet, popup, tooltip, pointer, clicks, clicked>>

libVars == <<call, returned>>

tipVars == <<tooltip, pointer, clicks, clicked>>

uiVars == <<popup, tipVars>>

clockVars == <<timerAge, quiet>>

sysVars == <<storage, reqs, replies, sent, tabQueue, delivered, loaded, domReadyPending,
             observerAttached, isProcessed, isProcessing, currentSettings, dom,
             page0, runs, ended, timers, mutationTimeout, lastTrigger, uiVars,
             clockVars>>

pageVars == <<delivered, loaded, domReadyPending, observerAttached, isProcessed, isProcessing,
              currentSettings, dom, page0, runs, ended, timers, mutationTimeout,
              lastTrigger, libVars, clockVars>>

(***************************************************************************)
(* Bounds of the model.                                                    *)
(***************************************************************************)
MaxRequests == 1      \* UPDATE_SETTINGS requests sent while a tab listens
MaxOverlapping == 2   \* UPDATE_SETTINGS requests sent while no tab listens
MaxShuffled == 3      \* longest list of which every shuffle is explored
MaxClicks == 2        \* clicks on markers

(***************************************************************************)
(* Settings records (types.ts, storage.ts).                                *)
(***************************************************************************)
DEFAULT_SETTINGS ==
  [isEnabled |-> TRUE, targetLanguage |-> "es", difficulty |-> "beginner"]

\* { ...a, ...b }
Spread(a, b) ==
  [f \in DOMAIN a \cup DOMAIN b |-> IF f \in DOMAIN b THEN b[f] ELSE a[f]]

\* A read that hands out the stored record as it is
getUserSettingsAsStored(store, readFails) ==
  IF readFails \/ store = <<>> THEN DEFAULT_SETTINGS ELSE store[1]

\* getUserSettings(): the stored record over the defaults; the defaults when
\* there is no record or the read fails (the error is caught).
getUserSettings(store, readFails) ==
  IF readFails THEN DEFAULT_SETTINGS
  ELSE IF store # <<>> THEN Spread(DEFAULT_SETTINGS, store[1])
  ELSE DEFAULT_SETTINGS

\* A merge in which the current values win
updatedSettingsKeepsCurrent(current, settings) == Spread(settings, current)

\* setUserSettings(settings), after its read: { ...currentSettings, ...settings }
updatedSettings(current, settings) == Spread(current, settings)

\* The payloads the popup and the test helpers send.
Payloads ==
  { [isEnabled |-> FALSE],
    [isEnabled |-> TRUE],
    [targetLanguage |-> "fr"] }

\* Records the store may hold when the page is opened: none, one written by a
\* version that knew fewer fields, and complete ones.
InitStores ==
  { <<>>,
    <<[targetLanguage |-> "fr"]>>,
    <<[isEnabled |-> FALSE, targetLanguage |-> "es", difficulty |-> "beginner"]>> }

RemoveAt(seq, i) == SubSeq(seq, 1, i - 1) \o SubSeq(seq, i + 1, Len(seq))

(***************************************************************************)
(* Background worker: chrome.runtime.onMessage, case 'UPDATE_SETTINGS'.    *)
(* A request is  setUserSettings(payload) -> getUserSettings() ->          *)
(* sendResponse + broadcast, with a suspension at each storage call.       *)
(***************************************************************************)
NewRequest(p) ==
  [op |-> "UPDATE_SETTINGS", payload |-> p, pc |-> "read", updated |-> <<>>,
   sender |-> "helper"]

\* sendResponse({success, data}) to the sender of the request with payload `to`
Reply(to, ok, data) ==
  [op |-> "UPDATE_SETTINGS", to |-> to, success |-> ok, data |-> data, sender |-> "helper"]

\* The same to the sender of the request r
ReplyTo(r, ok, data) == [Reply(r.payload, ok, data) EXCEPT !.sender = r.sender]

\* A sender (popup, test helper) posts UPDATE_SETTINGS{payload}: the listener
\* calls setUserSettings, which suspends in its storage read.
SendUpdateSettings(p, limit) ==
  /\ sent < limit
  /\ sent' = sent + 1
  /\ reqs' = Append(reqs, NewRequest(p))
  /\ UNCHANGED <<storage, replies, tabQueue>>
  /\ UNCHANGED <<uiVars, pageVars>>

\* setUserSettings: the read returns; the merged record is built and
\* chrome.storage.local.set is issued.
BgRead(i, readFails) ==
  /\ reqs[i].pc = "read"
  /\ reqs' = [reqs EXCEPT
       ![i].updated = <<updatedSettings(getUserSettings(storage, readFails), reqs[i].payload)>>,
       ![i].pc = "write"]
  /\ UNCHANGED <<storage, replies, tabQueue>>
  /\ UNCHANGED <<sent, uiVars, pageVars>>

\* chrome.storage.local.set settles. Stored: setUserSettings resolves and the
\* handler calls getUserSettings. Rejected: setUserSettings rethrows and the
\* handler's catch replies success:false.
BgWrite(i, writeFails) ==
  /\ reqs[i].op = "UPDATE_SETTINGS"
  /\ reqs[i].pc = "write"
  /\ IF writeFails
       THEN /\ replies' = Append(replies, ReplyTo(reqs[i], FALSE, <<>>))
            /\ reqs' = RemoveAt(reqs, i)
            /\ UNCHANGED storage
       ELSE /\ storage' = reqs[i].updated
            /\ reqs' = [reqs EXCEPT ![i].pc = "reread"]
            /\ UNCHANGED replies
  /\ UNCHANGED tabQueue
  /\ UNCHANGED <<sent, uiVars, pageVars>>

\* The handler's getUserSettings returns: sendResponse({success: true, data}),
\* then chrome.tabs.sendMessage(SETTINGS_CHANGED, data) to every tab. Only the
\* tab that runs the content script can receive it; the send to any other tab
\* rejects and the rejection is ignored.
BgReply(i, readFails) ==
  /\ reqs[i].pc = "reread"
  /\ LET data == getUserSettings(storage, readFails)
     IN  /\ replies' = Append(replies, ReplyTo(reqs[i], TRUE, <<data>>))
         /\ tabQueue' = Append(tabQueue, data)
  /\ reqs' = RemoveAt(reqs, i)
  /\ UNCHANGED storage
  /\ UNCHANGED <<sent, uiVars, pageVars>>

\* A test helper's await of chrome.runtime.sendMessage resumes with the reply.
ReceiveReply ==
  /\ replies # <<>>
  /\ Head(replies).sender = "helper"
  /\ replies' = Tail(replies)
  /\ UNCHANGED <<storage, reqs, tabQueue>>
  /\ UNCHANGED <<sent, uiVars, pageVars>>

\* A sender posts GET_SETTINGS: getUserSettings().then(sendResponse)
SendGetSettings(readFails) ==
  /\ sent < MaxOverlapping
  /\ sent' = sent + 1
  /\ replies' = Append(replies, [op |-> "GET_SETTINGS", to |-> <<>>, success |-> TRUE,
                                  data |-> <<getUserSettings(storage, readFails)>>,
                                  sender |-> "helper"])
  /\ UNCHANGED <<storage, reqs, tabQueue>>
  /\ UNCHANGED <<uiVars, pageVars>>

\* setUserSettings(DEFAULT_SETTINGS) is called, by resetUserSettings or by
\* the onInstalled listener, and suspends in its storage read
SetDefaults(op) ==
  [op |-> op, payload |-> DEFAULT_SETTINGS, pc |-> "read", updated |-> <<>>,
   sender |-> "helper"]

\* A test helper calls resetUserSettings()
CallResetUserSettings ==
  /\ sent < MaxOverlapping
  /\ sent' = sent + 1
  /\ reqs' = Append(reqs, SetDefaults("resetUserSettings"))
  /\ UNCHANGED <<storage, replies, tabQueue>>
  /\ UNCHANGED <<uiVars, pageVars>>

\* chrome.runtime.onInstalled fires with reason 'install': the first event of
\* a fresh installation, whose store is empty
OnInstalled ==
  /\ sent = 0
  /\ storage = <<>>
  /\ sent' = sent + 1
  /\ reqs' = Append(reqs, SetDefaults("onInstalled"))
  /\ UNCHANGED <<storage, replies, tabQueue>>
  /\ UNCHANGED <<uiVars, pageVars>>

\* chrome.storage.local.set of such a call settles. resetUserSettings
\* resolves or rejects to its caller; the onInstalled listener logs either way.
SetDefaultsSettles(i, writeFails) ==
  /\ reqs[i].op # "UPDATE_SETTINGS"
  /\ reqs[i].pc = "write"
  /\ storage' = IF writeFails THEN storage ELSE reqs[i].updated
  /\ replies' = IF reqs[i].op = "resetUserSettings"
                  THEN Append(replies, [op |-> "resetUserSettings", to |-> <<>>,
                                        success |-> ~writeFails, data |-> <<>>,
                                        sender |-> "helper"])
                  ELSE replies
  /\ reqs' = RemoveAt(reqs, i)
  /\ UNCHANGED tabQueue
  /\ UNCHANGED <<sent, uiVars, pageVars>>

(***************************************************************************)
(* The popup (pages/popup/Popup.tsx). pc: "closed", "loading" (the mount   *)
(* effect awaits getUserSettings), "idle", "sending" (updateSettings awaits *)
(* the reply), "reverting" (updateSettings awaits loadSettings).            *)
(***************************************************************************)
\* updates: history, how many updateSettings calls have finished
PopupClosed ==
  [pc |-> "closed", settings |-> DEFAULT_SETTINGS, isLoading |-> TRUE, isSaving |-> FALSE,
   updates |-> 0]

\* The popup is opened: the useState initial values, then the mount effect
\* calls loadSettings, which suspends in getUserSettings
PopupOpen ==
  /\ popup.pc = "closed"
  /\ popup' = [popup EXCEPT !.pc = "loading",
                            !.settings = [isEnabled |-> TRUE, targetLanguage |-> "es",
                                          difficulty |-> "beginner"],
                            !.isLoading = TRUE, !.isSaving = FALSE]
  /\ UNCHANGED <<storage, reqs, replies, sent, tabQueue, pageVars, tipVars>>

\* loadSettings resumes: setSettings(currentSettings), finally
\* setIsLoading(false); when updateSettings awaited it, its finally
\* setIsSaving(false)
loadSettings(readFails) ==
  /\ popup.pc \in {"loading", "reverting"}
  /\ popup' = [popup EXCEPT !.pc = "idle",
                            !.settings = getUserSettings(storage, readFails),
                            !.isLoading = FALSE,
                            !.isSaving = IF popup.pc = "reverting" THEN FALSE ELSE @,
                            !.updates = IF popup.pc = "reverting" THEN @ + 1 ELSE @]
  /\ UNCHANGED <<storage, reqs, replies, sent, tabQueue, pageVars, tipVars>>

\* The controls the popup renders enabled: the switch always, the language and
\* difficulty selectors while settings.isEnabled and not isSaving
ControlEnabled(p) ==
  IF "isEnabled" \in DOMAIN p THEN p.isEnabled # popup.settings.isEnabled
  ELSE popup.settings.isEnabled /\ ~popup.isSaving

\* The user changes a control: updateSettings(updates) up to its await of
\* chrome.runtime.sendMessage, or, when the send throws, to its await of
\* loadSettings in the catch block
updateSettings(updates, sendThrows) ==
  /\ popup.pc = "idle"
  /\ ControlEnabled(updates)
  /\ sent < MaxOverlapping
  /\ sent' = sent + 1
  /\ popup' = [popup EXCEPT !.isSaving = TRUE,
                            !.settings = Spread(popup.settings, updates),
                            !.pc = IF sendThrows THEN "reverting" ELSE "sending",
                            !.isLoading = sendThrows]
  /\ reqs' = IF sendThrows THEN reqs
             ELSE Append(reqs, [NewRequest(updates) EXCEPT !.sender = "popup"])
  /\ UNCHANGED <<storage, replies, tabQueue, pageVars, tipVars>>

\* The popup's await of chrome.runtime.sendMessage resumes with the reply:
\* success, setLastSaved and finally setIsSaving(false); otherwise
\* loadSettings is called and awaited
PopupReply ==
  /\ popup.pc = "sending"
  /\ replies # <<>>
  /\ Head(replies).sender = "popup"
  /\ replies' = Tail(replies)
  /\ popup' = IF Head(replies).success
                THEN [popup EXCEPT !.pc = "idle", !.isSaving = FALSE, !.updates = @ + 1]
                ELSE [popup EXCEPT !.pc = "reverting", !.isLoading = TRUE]
  /\ UNCHANGED <<storage, reqs, sent, tabQueue, pageVars, tipVars>>

(***************************************************************************)
(* The page. document.body is a sequence of nodes; a node is a text node   *)
(* under an ordinary element ("text"), a text node under an excluded       *)
(* element such as <code> ("code"), or a <soma-word> marker ("soma").      *)
(* A text is a sequence of tokens: a token is a maximal run of regex word  *)
(* characters [A-Za-z0-9_] or the separator " " between two of them.       *)
(***************************************************************************)
TextNode(t) == [kind |-> "text", text |-> t, original |-> "", translation |-> "", language |-> ""]
CodeNode(t) == [kind |-> "code", text |-> t, original |-> "", translation |-> "", language |-> ""]

\* document.createElement('soma-word') with textContent and the three data attributes
SomaWord(matchedWord, translation, targetLanguage) ==
  [kind |-> "soma", text |-> <<translation>>, original |-> matchedWord,
   translation |-> translation, language |-> targetLanguage]

\* The letters the pattern [a-z] matches
Letters ==
  {"a", "b", "c", "d", "e", "f", "g", "h", "i", "j", "k", "l", "m",
   "n", "o", "p", "q", "r", "s", "t", "u", "v", "w", "x", "y", "z"}

\* String.prototype.toLowerCase on one character of the ASCII range
toLowerCaseChar(c) ==
  CASE c = "A" -> "a" [] c = "B" -> "b" [] c = "C" -> "c" [] c = "D" -> "d"
    [] c = "E" -> "e" [] c = "F" -> "f" [] c = "G" -> "g" [] c = "H" -> "h"
    [] c = "I" -> "i" [] c = "J" -> "j" [] c = "K" -> "k" [] c = "L" -> "l"
    [] c = "M" -> "m" [] c = "N" -> "n" [] c = "O" -> "o" [] c = "P" -> "p"
    [] c = "Q" -> "q" [] c = "R" -> "r" [] c = "S" -> "s" [] c = "T" -> "t"
    [] c = "U" -> "u" [] c = "V" -> "v" [] c = "W" -> "w" [] c = "X" -> "x"
    [] c = "Y" -> "y" [] c = "Z" -> "z"
    [] OTHER -> c

\* String.prototype.toLowerCase, character by character
RECURSIVE LowerCased(_)
LowerCased(t) ==
  IF t = "" THEN "" ELSE toLowerCaseChar(Head(t)) \o LowerCased(Tail(t))

\* The tokens of the pages, the model answers and the translation maps below
Vocabulary ==
  {" ", "The", "the", "house", "House", "is", "cold", "water", "Hello123", "this",
   "hello", "zebra", "Zebra", "casa", "word", "page"}

\* Their lower case, computed once
LowerCaseOf == [t \in Vocabulary |-> LowerCased(t)]

\* String.prototype.toLowerCase
toLowerCase(t) == IF t \in Vocabulary THEN LowerCaseOf[t] ELSE LowerCased(t)

\* The runs of letters a-z in s, left to right; run is the run being read
RECURSIVE SplitLetters(_, _)
SplitLetters(s, run) ==
  IF s = "" THEN (IF run = "" THEN <<>> ELSE <<run>>)
  ELSE IF Head(s) \in Letters THEN SplitLetters(Tail(s), run \o Head(s))
  ELSE (IF run = "" THEN <<>> ELSE <<run>>) \o SplitLetters(Tail(s), "")

\* .toLowerCase().replace(/[^a-z\s]/g, ' ').split(/\s+/) on one token: the
\* runs of letters a-z in it (the empty strings split leaves at the ends do
\* not pass the length filter)
LetterRuns(t) == SplitLetters(toLowerCase(t), "")

\* text.trim() is empty
IsBlank(t) == \A k \in 1..Len(t) : t[k] = " "

\* new RegExp(`\\b${word}\\b`, 'i'): the positions of text where it matches
MatchPositions(text, word) ==
  {k \in 1..Len(text) : text[k] # " " /\ toLowerCase(text[k]) = toLowerCase(word)}

Min(S) == CHOOSE k \in S : \A m \in S : k <= m

\* acceptNode of getAllTextNodes: parent not excluded, text not blank
Accepted(node) == node.kind = "text" /\ ~IsBlank(node.text)

\* getAllTextNodes(document.body): positions of the accepted text nodes
getAllTextNodes(d) == {k \in 1..Len(d) : Accepted(d[k])}

RECURSIVE Join(_)
Join(texts) ==
  IF texts = <<>> THEN <<>>
  ELSE IF Len(texts) = 1 THEN texts[1]
  ELSE texts[1] \o <<" ">> \o Join(Tail(texts))

\* extractPageText(): textNodes.map(textContent).join(' ')
extractPageText(d) ==
  LET textNodes == SelectSeq(d, Accepted)
  IN  Join([k \in 1..Len(textNodes) |-> textNodes[k].text])

STOP_WORDS ==
  {"a", "an", "and", "are", "as", "at", "be", "by", "for", "from",
   "has", "he", "in", "is", "it", "its", "of", "on", "that", "the",
   "to", "was", "will", "with", "they", "this", "but", "or", "not",
   "you", "all", "can", "had", "her", "his", "if", "one", "our",
   "out", "up", "we", "who", "when", "where", "which", "have", "been",
   "their", "what", "there", "more", "into", "than", "them", "some",
   "could", "would", "should", "about", "also", "other", "only", "very",
   "just", "now", "any", "such", "these", "those", "may", "much", "said",
   "then", "well", "even", "each", "she", "him", "my", "me", "no", "yes"}

MinWordLength == 4

RECURSIVE Words(_)
Words(text) ==
  IF text = <<>> THEN <<>> ELSE LetterRuns(Head(text)) \o Words(Tail(text))

RECURSIVE Unique(_)
Unique(ws) ==
  IF ws = <<>> THEN <<>>
  ELSE LET init == Unique(SubSeq(ws, 1, Len(ws) - 1))
           w == ws[Len(ws)]
       IN  IF \E k \in 1..Len(init) : init[k] = w THEN init ELSE Append(init, w)

\* An extraction that keeps every occurrence of a word
extractCandidateWordsKeepsDuplicates(pageText) ==
  SelectSeq(Words(pageText), LAMBDA w : Len(w) >= MinWordLength /\ w \notin STOP_WORDS)

\* extractCandidateWords(pageText)
extractCandidateWords(pageText) ==
  Unique(SelectSeq(Words(pageText),
                   LAMBDA w : Len(w) >= MinWordLength /\ w \notin STOP_WORDS))

\* A replacement that keeps the word of the map as data-original
replaceWordInTextNodeKeepsKey(node, word, translation, targetLanguage) ==
  LET text == node.text
      hits == MatchPositions(text, word)
  IN  IF hits = {} THEN <<node>>
      ELSE LET k == Min(hits)
               beforeText == SubSeq(text, 1, k - 1)
               afterText == SubSeq(text, k + 1, Len(text))
           IN  (IF beforeText # <<>> THEN <<TextNode(beforeText)>> ELSE <<>>)
               \o <<SomaWord(word, translation, targetLanguage)>>
               \o (IF afterText # <<>> THEN <<TextNode(afterText)>> ELSE <<>>)

\* replaceWordInTextNode: the nodes that take the text node's place
replaceWordInTextNode(node, word, translation, targetLanguage) ==
  LET text == node.text
      hits == MatchPositions(text, word)
  IN  IF hits = {} THEN <<node>>
      ELSE LET k == Min(hits)
               beforeText == SubSeq(text, 1, k - 1)
               afterText == SubSeq(text, k + 1, Len(text))
           IN  (IF beforeText # <<>> THEN <<TextNode(beforeText)>> ELSE <<>>)
               \o <<SomaWord(text[k], translation, targetLanguage)>>
               \o (IF afterText # <<>> THEN <<TextNode(afterText)>> ELSE <<>>)

\* One pass of words.forEach: every text node accepted when the pass starts
\* and matching the word is replaced once.
RECURSIVE ReplaceOneWord(_, _, _, _)
ReplaceOneWord(d, word, translation, targetLanguage) ==
  IF d = <<>> THEN <<>>
  ELSE (IF Accepted(Head(d)) /\ MatchPositions(Head(d).text, word) # {}
          THEN replaceWordInTextNode(Head(d), word, translation, targetLanguage)
          ELSE <<Head(d)>>)
       \o ReplaceOneWord(Tail(d), word, translation, targetLanguage)

\* replaceWordsInDOM(translationMap, targetLanguage): the map is the sequence
\* of its <<key, value>> entries in key order
RECURSIVE replaceWordsInDOM(_, _, _)
replaceWordsInDOM(translationMap, targetLanguage, d) ==
  IF translationMap = <<>> THEN d
  ELSE replaceWordsInDOM(Tail(translationMap), targetLanguage,
         ReplaceOneWord(d, Head(translationMap)[1], Head(translationMap)[2], targetLanguage))

\* removeAllReplacements(): every marker with a non-empty data-original gives
\* way to a text node holding it
removeAllReplacementsKeepsText(d) ==
  [k \in 1..Len(d) |->
     IF d[k].kind = "soma" /\ d[k].original # ""
       THEN TextNode(d[k].text)
       ELSE d[k]]

\* A removal that also drops the text nodes that hold only white space
removeAllReplacementsTrims(d) ==
  SelectSeq([k \in 1..Len(d) |->
               IF d[k].kind = "soma" /\ d[k].original # ""
                 THEN TextNode(<<d[k].original>>)
                 ELSE d[k]],
            LAMBDA node : ~(node.kind = "text" /\ IsBlank(node.text)))

\* A removal that leaves the first marker in place
removeAllReplacementsKeepsFirst(d) ==
  [k \in 1..Len(d) |->
     IF d[k].kind = "soma" /\ d[k].original # "" /\ \E j \in 1..(k - 1) : d[j].kind = "soma"
       THEN TextNode(<<d[k].original>>)
       ELSE d[k]]

removeAllReplacements(d) ==
  [k \in 1..Len(d) |->
     IF d[k].kind = "soma" /\ d[k].original # ""
       THEN TextNode(<<d[k].original>>)
       ELSE d[k]]

Markers(d) == {k \in 1..Len(d) : d[k].kind = "soma"}

RECURSIVE textContent(_)
textContent(d) == IF d = <<>> THEN <<>> ELSE Head(d).text \o textContent(Tail(d))

\* The pages the content script is loaded into.
Pages ==
  { <<TextNode(<<"The", " ", "house", " ", "is", " ", "cold">>),
      TextNode(<<"House", " ", "water", " ", "house">>), CodeNode(<<"water">>)>>,
    <<TextNode(<<"Hello123", " ", "this">>)>>,
    <<TextNode(<<"the", " ", "is">>)>>,
    <<CodeNode(<<"water">>), TextNode(<<" ">>)>> }

(***************************************************************************)
(* Word selector (ai-word-selector.ts).                                    *)
(***************************************************************************)
Difficulties == {"beginner", "intermediate", "advanced"}

BeginnerWordCount == 15
IntermediateWordCount == 30
AdvancedWordCount == 50

getWordCountForDifficulty(difficulty) ==
  CASE difficulty = "beginner" -> BeginnerWordCount
    [] difficulty = "intermediate" -> IntermediateWordCount
    [] difficulty = "advanced" -> AdvancedWordCount
    [] OTHER -> BeginnerWordCount

\* Array.prototype.sort is stable: insertion of w after the elements that do
\* not sort after it
RECURSIVE InsertSorted(_, _, _)
InsertSorted(sorted, w, difficulty) ==
  IF sorted = <<>> THEN <<w>>
  ELSE LET last == sorted[Len(sorted)]
           after == IF difficulty = "beginner" THEN Len(last) > Len(w)
                    ELSE Len(last) < Len(w)
       IN  IF after
             THEN Append(InsertSorted(SubSeq(sorted, 1, Len(sorted) - 1), w, difficulty), last)
             ELSE Append(sorted, w)

\* A sort that leaves the list as it is
SortByLengthKeepsOrder(ws, difficulty) == ws

RECURSIVE SortByLength(_, _)
SortByLength(ws, difficulty) ==
  IF ws = <<>> THEN <<>>
  ELSE InsertSorted(SortByLength(SubSeq(ws, 1, Len(ws) - 1), difficulty),
                    ws[Len(ws)], difficulty)

\* The orders a sort with the comparator Math.random() - 0.5 can leave: every
\* order of a list of up to MaxShuffled words; of a longer list the rotations
\* and their reversals
Shuffles(ws) ==
  LET n == Len(ws)
  IN  IF n <= MaxShuffled
        THEN {[k \in 1..n |-> ws[f[k]]] :
                f \in {g \in [1..n -> 1..n] : \A a, b \in 1..n : a # b => g[a] # g[b]}}
        ELSE {[k \in 1..n |-> ws[((k + r - 1) % n) + 1]] : r \in 0..(n - 1)}
             \cup {[k \in 1..n |-> ws[((n - k + r) % n) + 1]] : r \in 0..(n - 1)}

\* A fallback that selects nothing
fallbackWordSelectionNothing(candidateWords, difficulty) == {<<>>}

\* fallbackWordSelection(candidateWords, difficulty): the lists it can return
fallbackWordSelection(candidateWords, difficulty) ==
  LET wordCount == getWordCountForDifficulty(difficulty)
      orders == IF difficulty \in {"beginner", "advanced"}
                  THEN {SortByLength(candidateWords, difficulty)}
                  ELSE Shuffles(candidateWords)
      Take(sortedWords) ==
        SubSeq(sortedWords, 1, IF wordCount < Len(sortedWords) THEN wordCount ELSE Len(sortedWords))
  IN  {Take(sortedWords) : sortedWords \in orders}

\* What the language model does on one call: its availability, whether the
\* page has user activation, which call throws ("none", "create" or
\* "prompt"), and the text it answers (json: the text holds a JSON array that
\* parses; words: the array).
LanguageModel(availability, userActivation, throws, json, words) ==
  [availability |-> availability, userActivation |-> userActivation,
   throws |-> throws, json |-> json, words |-> words]

ModelBehaviours ==
  { LanguageModel("unavailable", FALSE, "none", FALSE, <<>>),
    LanguageModel("downloadable", FALSE, "none", FALSE, <<>>),
    LanguageModel("downloadable", TRUE, "none", TRUE, <<"House", "cold">>),
    LanguageModel("available", FALSE, "create", FALSE, <<>>),
    LanguageModel("available", FALSE, "prompt", FALSE, <<>>),
    LanguageModel("available", FALSE, "none", FALSE, <<>>),
    LanguageModel("available", FALSE, "none", TRUE, <<>>),
    LanguageModel("available", FALSE, "none", TRUE, <<"zebra">>),
    LanguageModel("available", FALSE, "none", TRUE, <<"House", "cold">>) }

\* LanguageModel.create / Translator.create is called: the model is
\* available, or downloadable with navigator.userActivation.isActive
CreateCalled(m) ==
  \/ m.availability = "available"
  \/ m.availability = "downloadable" /\ m.userActivation

\* The sessions selectWordsWithAI creates and destroys under behaviour m
selectorSessions(m) ==
  LET created == IF CreateCalled(m) /\ m.throws # "create" THEN 1 ELSE 0
  IN  [created |-> created,
       destroyed |-> IF created = 1 /\ m.throws = "none" THEN 1 ELSE 0]

\* selectWordsWithAI(candidateWords, difficulty, targetLanguage): the lists
\* it can resolve to under behaviour m
selectWordsWithAI(candidateWords, difficulty, m) ==
  LET fallback == fallbackWordSelection(candidateWords, difficulty)
  IN  IF ~CreateCalled(m) THEN fallback
      ELSE IF m.throws # "none" THEN fallback
      ELSE IF ~m.json THEN fallback
      ELSE IF m.words = <<>> THEN fallback
      ELSE {SelectSeq(m.words,
                      LAMBDA word : \E k \in 1..Len(candidateWords) :
                                       candidateWords[k] = toLowerCase(word))}

(***************************************************************************)
(* Translator (ai-word-selector.ts).                                       *)
(***************************************************************************)
\* staticTranslations of getFallbackTranslations
staticTranslations(targetLanguage) ==
  CASE targetLanguage = "es" ->
         [house |-> "casa", food |-> "comida", water |-> "agua", book |-> "libro",
          time |-> "tiempo", person |-> "persona", year |-> "ano", work |-> "trabajo",
          life |-> "vida", hand |-> "mano", part |-> "parte", child |-> "nino",
          woman |-> "mujer", place |-> "lugar", week |-> "semmana", case |-> "caso",
          point |-> "punto", government |-> "gobierno", company |-> "empresa",
          number |-> "numero"]
    [] targetLanguage = "fr" ->
         [house |-> "maison", food |-> "nourriture", water |-> "eau", book |-> "livre",
          time |-> "temps", person |-> "personne", year |-> "annee", work |-> "travail",
          life |-> "vie", hand |-> "main", part |-> "partie", child |-> "enfant",
          woman |-> "femme", place |-> "lieu", week |-> "semaine", case |-> "cas",
          point |-> "point", government |-> "gouvernement", company |-> "entreprise",
          number |-> "nombre"]
    [] targetLanguage = "de" ->
         [house |-> "Haus", food |-> "Essen", water |-> "Wasser", book |-> "Buch",
          time |-> "Zeit", person |-> "Person", year |-> "Jahr", work |-> "Arbeit",
          life |-> "Leben", hand |-> "Hand", part |-> "Teil", child |-> "Kind",
          woman |-> "Frau", place |-> "Ort", week |-> "Woche", case |-> "Fall",
          point |-> "Punkt", government |-> "Regierung", company |-> "Firma",
          number |-> "Nummer"]
    [] OTHER -> <<>>

\* translationMap[word] = value: an existing key keeps its place
SetEntry(translationMap, word, value) ==
  IF \E k \in 1..Len(translationMap) : translationMap[k][1] = word
    THEN [k \in 1..Len(translationMap) |->
            IF translationMap[k][1] = word THEN <<word, value>> ELSE translationMap[k]]
    ELSE Append(translationMap, <<word, value>>)

\* results.forEach(({ word, translation }) => { translationMap[word] = translation })
RECURSIVE BuildMap(_)
BuildMap(results) ==
  IF results = <<>> THEN <<>>
  ELSE SetEntry(BuildMap(SubSeq(results, 1, Len(results) - 1)),
                results[Len(results)][1], results[Len(results)][2])

\* The properties an object literal inherits from Object.prototype
ObjectPrototype ==
  {"constructor", "toString", "valueOf", "hasOwnProperty", "isPrototypeOf",
   "propertyIsEnumerable", "toLocaleString"}

\* The function object Object.prototype holds under a name, as the text it
\* turns into when it is used as a string
NativeFunction(name) ==
  CASE name = "constructor" -> "function Object() { [native code] }"
    [] name = "toString" -> "function toString() { [native code] }"
    [] name = "valueOf" -> "function valueOf() { [native code] }"
    [] name = "hasOwnProperty" -> "function hasOwnProperty() { [native code] }"
    [] name = "isPrototypeOf" -> "function isPrototypeOf() { [native code] }"
    [] name = "propertyIsEnumerable" -> "function propertyIsEnumerable() { [native code] }"
    [] name = "toLocaleString" -> "function toLocaleString() { [native code] }"

\* getFallbackTranslations(words, targetLanguage): translations[word] || word
\* looks the word up in the table and then in Object.prototype
getFallbackTranslations(words, targetLanguage) ==
  LET translations == staticTranslations(targetLanguage)
      Value(word) == IF word \in DOMAIN translations THEN translations[word]
                     ELSE IF word \in ObjectPrototype THEN NativeFunction(word)
                     ELSE word
  IN  BuildMap([k \in 1..Len(words) |-> <<words[k], Value(words[k])>>])

\* session.translate(word) of the translation model, when it answers
ModelTranslation(word, targetLanguage) ==
  CASE toLowerCase(word) = "house" /\ targetLanguage = "es" -> "casa"
    [] toLowerCase(word) = "house" /\ targetLanguage = "fr" -> "maison"
    [] toLowerCase(word) = "water" /\ targetLanguage = "es" -> "agua"
    [] toLowerCase(word) = "water" /\ targetLanguage = "fr" -> "eau"
    [] toLowerCase(word) = "cold" /\ targetLanguage = "es" -> "frio"
    [] toLowerCase(word) = "cold" /\ targetLanguage = "fr" -> "froid"
    [] OTHER -> "hola"

\* What the translation model does on one call: its availability, user
\* activation, whether availability() or create() throws, and whether
\* translate() rejects for the word "cold".
Translator(availability, userActivation, throws, coldFails) ==
  [availability |-> availability, userActivation |-> userActivation,
   throws |-> throws, coldFails |-> coldFails]

TranslatorBehaviours ==
  { Translator("unavailable", FALSE, FALSE, FALSE),
    Translator("downloadable", FALSE, FALSE, FALSE),
    Translator("downloadable", TRUE, FALSE, FALSE),
    Translator("available", FALSE, FALSE, FALSE),
    Translator("available", FALSE, FALSE, TRUE),
    Translator("available", FALSE, TRUE, FALSE) }

\* The sessions translateWordsWithAI creates and destroys under behaviour m
translatorSessions(m) ==
  LET created == IF CreateCalled(m) /\ ~m.throws THEN 1 ELSE 0
  IN  [created |-> created, destroyed |-> created]

\* translateWordsWithAI(words, targetLanguage) under behaviour m: <<>> when
\* it throws, else <<translationMap>>
translateWordsWithAI(words, targetLanguage, m) ==
  LET Value(word) ==
        IF m.coldFails /\ word = "cold" THEN word
        ELSE ModelTranslation(word, targetLanguage)
  IN  IF m.throws THEN <<>>
        ELSE IF ~CreateCalled(m) THEN <<getFallbackTranslations(words, targetLanguage)>>
        ELSE <<BuildMap([k \in 1..Len(words) |-> <<words[k], Value(words[k])>>])>>

(***************************************************************************)
(* Page controller (pages/content/index.tsx).                              *)
(***************************************************************************)
\* The re-entrancy guard left out
AlreadyProcessingNever(processing) == FALSE

\* if (isProcessing) return
AlreadyProcessing(processing) == processing

\* The processed guard left out
AlreadyProcessedNever(processed, force) == FALSE

\* if (isProcessed && !force) return
AlreadyProcessed(processed, force) == processed /\ ~force

\* A run that has passed the guards: isProcessing = true, then the await of
\* getUserSettings. cause: the handler that called, what it was given and the
\* page it found. onEnd: the .then callback the caller attached.
NewRun(force, cause, onEnd) ==
  [pc |-> "settings", force |-> force, cause |-> cause, onEnd |-> onEnd,
   settings |-> <<>>, candidateWords |-> <<>>, selectedWords |-> <<>>, steps |-> {}]

Cause(op, payload) ==
  [op |-> op, disables |-> (payload # <<>> /\ ~payload[1].isEnabled),
   wasProcessed |-> isProcessed, markers |-> Cardinality(Markers(dom))]

\* processPageWithAI(force) up to its first await, on c = [isProcessing, runs]
processPageWithAI(c, force, cause, onEnd) ==
  IF AlreadyProcessing(c.isProcessing) THEN c
  ELSE IF AlreadyProcessed(isProcessed, force) THEN c
  ELSE [isProcessing |-> TRUE, runs |-> Append(c.runs, NewRun(force, cause, onEnd))]

Controller == [isProcessing |-> isProcessing, runs |-> runs]

\* setTimeout returns the id of the new timer: an id no pending timer has
\* (the timer of the id held before is cleared or has fired)
setTimeout(held) == IF held = 1 THEN 2 ELSE 1

\* The delay of the debounce timer, in seconds
DebounceSeconds == 2

\* The ages of the pending timers once the observer callback has cleared the
\* timer it held and set a new one
Rescheduled(age, pending, held) ==
  [id \in (pending \ {held}) \cup {setTimeout(held)} |->
     IF id = setTimeout(held) THEN 0 ELSE age[id]]

\* A callback that looks at the enabled flag only
ObserverIgnoresWhenDisabled(settings, processing, processed) ==
  IF settings = <<>> THEN TRUE ELSE ~settings[1].isEnabled

\* The mutationObserver callback returns before it touches the timer
ObserverIgnores(settings, processing, processed) ==
  IF settings = <<>> \/ processing THEN TRUE
  ELSE IF ~settings[1].isEnabled THEN TRUE
  ELSE processed

\* The content script's top-level code, run once when it is injected, and
\* the .then callbacks that are already due when it ends.
ScriptLoad(readyState) ==
  /\ ~loaded
  /\ loaded' = TRUE
  /\ LET c0 == Controller
         c1 == IF readyState = "loading" THEN c0
               ELSE processPageWithAI(c0, FALSE, Cause("load", <<>>), "none")
         c2 == processPageWithAI(c1, FALSE, Cause("load", <<>>), "observe")
         c3 == processPageWithAI(c2, FALSE, Cause("load", <<>>), "observeIfEnabled")
     IN  /\ domReadyPending' = (readyState = "loading")
         /\ isProcessing' = c3.isProcessing
         /\ runs' = c3.runs
         /\ observerAttached' =
              \/ Len(c2.runs) = Len(c1.runs)
              \/ Len(c3.runs) = Len(c2.runs) /\ currentSettings # <<>> /\ currentSettings[1].isEnabled
         /\ lastTrigger' = [op |-> "load", started |-> Len(c3.runs) - Len(c0.runs)]
  /\ UNCHANGED <<libVars, uiVars, clockVars, storage, reqs, replies, sent, tabQueue, delivered, isProcessed,
                 currentSettings, dom, page0, ended, timers, mutationTimeout>>

\* document's DOMContentLoaded listener: processPageWithAI()
DOMContentLoaded ==
  /\ domReadyPending
  /\ domReadyPending' = FALSE
  /\ LET c == processPageWithAI(Controller, FALSE, Cause("DOMContentLoaded", <<>>), "none")
     IN  /\ isProcessing' = c.isProcessing
         /\ runs' = c.runs
         /\ lastTrigger' = [op |-> "DOMContentLoaded", started |-> Len(c.runs) - Len(runs)]
  /\ UNCHANGED <<libVars, uiVars, clockVars, storage, reqs, replies, sent, tabQueue, delivered, loaded,
                 observerAttached, isProcessed, currentSettings, dom, page0, ended,
                 timers, mutationTimeout>>

\* chrome.runtime.onMessage listener of the content script, SETTINGS_CHANGED:
\* currentSettings = message.payload; processPageWithAI(true). A message for a
\* tab whose content script has not registered the listener is lost.
SettingsChanged ==
  /\ tabQueue # <<>>
  /\ tabQueue' = Tail(tabQueue)
  /\ IF loaded
       THEN LET payload == Head(tabQueue)
                c == processPageWithAI(Controller, TRUE,
                                       Cause("SETTINGS_CHANGED", <<payload>>), "respond")
            IN  /\ currentSettings' = <<payload>>
                /\ delivered' = <<payload.isEnabled>>
                /\ isProcessing' = c.isProcessing
                /\ runs' = c.runs
                /\ lastTrigger' = [op |-> "SETTINGS_CHANGED", started |-> Len(c.runs) - Len(runs)]
       ELSE UNCHANGED <<currentSettings, delivered, isProcessing, runs, lastTrigger>>
  /\ UNCHANGED <<libVars, uiVars, clockVars, storage, reqs, replies, sent, loaded, domReadyPending,
                 observerAttached, isProcessed, dom, page0, ended, timers,
                 mutationTimeout>>

\* The page changes its own child list: the mutationObserver callback runs.
\* An accepted notification clears the pending timer and sets a new one.
PageMutation ==
  /\ observerAttached
  /\ IF ObserverIgnores(currentSettings, isProcessing, isProcessed)
       THEN UNCHANGED <<timers, mutationTimeout, clockVars>>
       ELSE /\ timers' = (timers \ {mutationTimeout}) \cup {setTimeout(mutationTimeout)}
            /\ mutationTimeout' = setTimeout(mutationTimeout)
            /\ timerAge' = Rescheduled(timerAge, timers, mutationTimeout)
            /\ quiet' = 0
  /\ lastTrigger' = [op |-> "mutation", started |-> 0,
                      cancelled |-> (mutationTimeout \in timers
                                     /\ ~ObserverIgnores(currentSettings, isProcessing,
                                                         isProcessed))]
  /\ UNCHANGED <<libVars, uiVars, storage, reqs, replies, sent, tabQueue, delivered, loaded,
                 domReadyPending, observerAttached, isProcessed, isProcessing,
                 currentSettings, dom, page0, runs, ended>>

\* The debounce timer fires, when its delay has passed: processPageWithAI()
TimerFires(id) ==
  /\ id \in timers
  /\ timerAge[id] = DebounceSeconds
  /\ timers' = timers \ {id}
  /\ timerAge' = [k \in timers \ {id} |-> timerAge[k]]
  /\ UNCHANGED quiet
  /\ LET c == processPageWithAI(Controller, FALSE, Cause("timer", <<>>), "none")
     IN  /\ isProcessing' = c.isProcessing
         /\ runs' = c.runs
         /\ lastTrigger' = [op |-> "timer", started |-> Len(c.runs) - Len(runs)]
  /\ UNCHANGED <<libVars, uiVars, storage, reqs, replies, sent, tabQueue, delivered, loaded,
                 domReadyPending, observerAttached, isProcessed, currentSettings,
                 dom, page0, ended, mutationTimeout>>

\* A second passes while a timer is pending
Tick ==
  /\ timers # {}
  /\ quiet < DebounceSeconds \/ \E id \in timers : timerAge[id] < DebounceSeconds
  /\ timerAge' = [id \in timers |->
                    IF timerAge[id] < DebounceSeconds THEN timerAge[id] + 1 ELSE timerAge[id]]
  /\ quiet' = IF quiet < DebounceSeconds THEN quiet + 1 ELSE quiet
  /\ UNCHANGED <<libVars, uiVars, storage, reqs, replies, sent, tabQueue, delivered, loaded,
                 domReadyPending, observerAttached, isProcessed, isProcessing,
                 currentSettings, dom, page0, runs, ended, timers, mutationTimeout,
                 lastTrigger>>

\* A controller without the finally block
isProcessingAfterWithoutFinally(finished, threw, processing) ==
  IF finished /\ ~threw THEN FALSE ELSE processing

\* isProcessing once a step of a run is over: `isProcessing = false` before
\* each early return and in the finally block
isProcessingAfter(finished, threw, processing) ==
  IF finished THEN FALSE ELSE processing

\* The rest of a run's step once its await has settled: r is the run after
\* the step, finished whether processPageWithAI returns in it (by return, or
\* through catch and finally), d / processed / settings what it leaves in
\* document.body, isProcessed and currentSettings. The observer callback for
\* the step's own DOM edits runs when the step ends, before any .then callback.
Continue(i, r, finished, threw, d, processed, settings) ==
  LET processing == isProcessingAfter(finished, threw, isProcessing)
      accepted == /\ observerAttached
                  /\ d # dom
                  /\ ~ObserverIgnores(settings, processing, processed)
  IN  /\ dom' = d
      /\ isProcessed' = processed
      /\ currentSettings' = settings
      /\ isProcessing' = processing
      /\ runs' = IF finished THEN RemoveAt(runs, i) ELSE [runs EXCEPT ![i] = r]
      /\ ended' = IF finished
                    THEN <<[cause |-> r.cause, enabled |-> r.settings[1].isEnabled,
                            steps |-> r.steps, threw |-> threw,
                            processed |-> processed, processing |-> processing,
                            markers |-> Cardinality(Markers(d)),
                            restored |-> (textContent(d) = textContent(page0))]>>
                    ELSE ended
      /\ observerAttached' =
           IF finished /\ r.onEnd = "observe" THEN TRUE
           ELSE IF finished /\ r.onEnd = "observeIfEnabled"
                   /\ settings # <<>> /\ settings[1].isEnabled THEN TRUE
           ELSE observerAttached
      /\ timers' = IF accepted
                     THEN (timers \ {mutationTimeout}) \cup {setTimeout(mutationTimeout)}
                     ELSE timers
      /\ mutationTimeout' = IF accepted THEN setTimeout(mutationTimeout) ELSE mutationTimeout
      /\ timerAge' = IF accepted THEN Rescheduled(timerAge, timers, mutationTimeout)
                     ELSE timerAge
      /\ quiet' = IF accepted THEN 0 ELSE quiet
      /\ UNCHANGED <<libVars, uiVars, storage, reqs, replies, sent, tabQueue, delivered, loaded,
                     domReadyPending, page0, lastTrigger>>

\* getUserSettings settles: from `currentSettings = settings` to the await in
\* selectWordsWithAI, or to the return of the disabled / no-candidates exits.
RunSettings(i, readFails) ==
  /\ runs[i].pc = "settings"
  /\ LET settings == getUserSettings(storage, readFails)
         removed == IF isProcessed THEN {"remove"} ELSE {}
         d == IF isProcessed THEN removeAllReplacements(dom) ELSE dom
         candidateWords == extractCandidateWords(extractPageText(d))
         r == [runs[i] EXCEPT !.settings = <<settings>>]
     IN  IF ~settings.isEnabled
           THEN Continue(i, [r EXCEPT !.steps = removed], TRUE, FALSE, d, FALSE,
                         <<settings>>)
           ELSE IF candidateWords = <<>>
             THEN Continue(i, [r EXCEPT !.steps = removed \cup {"extract"}], TRUE, FALSE,
                           d, isProcessed, <<settings>>)
             ELSE Continue(i, [r EXCEPT !.steps = removed \cup {"extract"},
                                        !.candidateWords = candidateWords,
                                        !.pc = "select"],
                           FALSE, FALSE, d, isProcessed, <<settings>>)

\* selectWordsWithAI settles: to the await in translateWordsWithAI, or to the
\* return of the no-words-selected exit.
RunSelect(i, m) ==
  /\ runs[i].pc = "select"
  /\ \E selectedWords \in selectWordsWithAI(runs[i].candidateWords,
                                            runs[i].settings[1].difficulty, m) :
       LET session == IF selectorSessions(m).created > 0 THEN {"session"} ELSE {}
           r == [runs[i] EXCEPT !.steps = @ \cup {"select"} \cup session,
                                !.selectedWords = selectedWords]
       IN  IF selectedWords = <<>>
             THEN Continue(i, r, TRUE, FALSE, dom, isProcessed, currentSettings)
             ELSE Continue(i, [r EXCEPT !.pc = "translate"], FALSE, FALSE, dom,
                           isProcessed, currentSettings)

\* translateWordsWithAI settles: replaceWordsInDOM and isProcessed = true, or
\* the catch block when it threw; finally isProcessing = false.
RunTranslate(i, m) ==
  /\ runs[i].pc = "translate"
  /\ LET settings == runs[i].settings[1]
         result == translateWordsWithAI(runs[i].selectedWords, settings.targetLanguage, m)
         session == IF translatorSessions(m).created > 0 THEN {"session"} ELSE {}
         r == [runs[i] EXCEPT !.steps = @ \cup {"translate"} \cup session]
     IN  IF result = <<>>
           THEN Continue(i, r, TRUE, TRUE, dom, isProcessed, currentSettings)
           ELSE Continue(i, [r EXCEPT !.steps = @ \cup {"replace"}], TRUE, FALSE,
                         replaceWordsInDOM(result[1], settings.targetLanguage, dom),
                         TRUE, currentSettings)

(***************************************************************************)
(* The system: the background worker, one tab with the content script.     *)
(***************************************************************************)
Init ==
  /\ storage \in InitStores
  /\ reqs = <<>>
  /\ replies = <<>>
  /\ sent = 0
  /\ tabQueue = <<>>
  /\ delivered = <<>>
  /\ loaded = FALSE
  /\ domReadyPending = FALSE
  /\ observerAttached = FALSE
  /\ isProcessed = FALSE
  /\ isProcessing = FALSE
  /\ currentSettings = <<>>
  /\ dom \in Pages
  /\ page0 = dom
  /\ runs = <<>>
  /\ ended = <<>>
  /\ timers = {}
  /\ mutationTimeout = 0
  /\ lastTrigger = [op |-> "none", started |-> 0]
  /\ call = [fn |-> "none", args |-> <<>>]
  /\ returned = <<>>
  /\ popup = PopupClosed
  /\ tooltip = [isVisible |-> FALSE, at |-> 0, originalWord |-> "", translatedWord |-> "",
                contextSentence |-> <<>>, expanded |-> FALSE]
  /\ pointer = 0
  /\ clicks = <<>>
  /\ clicked = <<>>
  /\ timerAge = [id \in timers |-> 0]
  /\ quiet = DebounceSeconds

Next ==
  \/ \E p \in Payloads : SendUpdateSettings(p, MaxRequests)
  \/ \E i \in 1..Len(reqs), readFails \in BOOLEAN : BgRead(i, readFails)
  \/ \E i \in 1..Len(reqs), writeFails \in BOOLEAN : BgWrite(i, writeFails)
  \/ \E i \in 1..Len(reqs), readFails \in BOOLEAN : BgReply(i, readFails)
  \/ ReceiveReply
  \/ \E readyState \in {"loading", "complete"} : ScriptLoad(readyState)
  \/ DOMContentLoaded
  \/ SettingsChanged
  \/ PageMutation
  \/ \E id \in timers : TimerFires(id)
  \/ Tick
  \/ \E i \in 1..Len(runs), readFails \in BOOLEAN : RunSettings(i, readFails)
  \/ \E i \in 1..Len(runs), m \in ModelBehaviours : RunSelect(i, m)
  \/ \E i \in 1..Len(runs), m \in TranslatorBehaviours : RunTranslate(i, m)

Spec == Init /\ [][Next]_vars

\* An await of a run in flight settles
RunStep ==
  \E i \in 1..Len(runs) :
    \/ \E readFails \in BOOLEAN : RunSettings(i, readFails)
    \/ \E m \in ModelBehaviours : RunSelect(i, m)
    \/ \E m \in TranslatorBehaviours : RunTranslate(i, m)

\* The system with one settings update on a page that does not change by
\* itself
NextLive ==
  \/ \E p \in Payloads : SendUpdateSettings(p, 1)
  \/ \E i \in 1..Len(reqs), readFails \in BOOLEAN : BgRead(i, readFails)
  \/ \E i \in 1..Len(reqs), writeFails \in BOOLEAN : BgWrite(i, writeFails)
  \/ \E i \in 1..Len(reqs), readFails \in BOOLEAN : BgReply(i, readFails)
  \/ ReceiveReply
  \/ \E readyState \in {"loading", "complete"} : ScriptLoad(readyState)
  \/ DOMContentLoaded
  \/ SettingsChanged
  \/ RunStep

\* The longest page text, in tokens, of the pages the system is started on
\* when runs are followed to their end
MaxLiveTokens == 3

InitLive == Init /\ Len(extractPageText(dom)) <= MaxLiveTokens

\* The system when every call a run awaits eventually returns or throws
SpecLive == InitLive /\ [][NextLive]_vars /\ WF_vars(RunStep)

\* The background worker and its senders while no tab runs the content
\* script: every SETTINGS_CHANGED is lost.
NextStore ==
  \/ \E p \in Payloads : SendUpdateSettings(p, MaxOverlapping)
  \/ \E i \in 1..Len(reqs), readFails \in BOOLEAN : BgRead(i, readFails)
  \/ \E i \in 1..Len(reqs), writeFails \in BOOLEAN : BgWrite(i, writeFails)
  \/ \E i \in 1..Len(reqs), readFails \in BOOLEAN : BgReply(i, readFails)
  \/ ReceiveReply
  \/ SettingsChanged
  \/ \E readFails \in BOOLEAN : SendGetSettings(readFails)
  \/ CallResetUserSettings
  \/ OnInstalled
  \/ \E i \in 1..Len(reqs), writeFails \in BOOLEAN : SetDefaultsSettles(i, writeFails)
  \/ PopupOpen
  \/ \E readFails \in BOOLEAN : loadSettings(readFails)
  \/ \E updates \in Payloads, sendThrows \in BOOLEAN : updateSettings(updates, sendThrows)
  \/ PopupReply

SpecStore == Init /\ [][NextStore]_vars

(***************************************************************************)
(* The library functions called on their own, on inputs their callers can  *)
(* give them.                                                              *)
(***************************************************************************)
\* A long page's candidates, as extractCandidateWords returns them: distinct
\* lower-case words of four letters or more, no stop word
ManyWords ==
  <<"language", "house", "translation", "word", "browser", "extension",
    "constructor", "page", "learning", "vocabulary", "cold", "water",
    "difficulty", "beginner", "text", "advanced", "intermediate", "model",
    "session", "storage", "settings", "message", "background", "content",
    "script", "popup", "tooltip", "marker", "replacement", "original",
    "candidate", "selection", "fallback", "prompt", "response", "array",
    "parse", "filter", "list", "length", "sort", "shuffle", "random",
    "first", "target", "count", "static", "table", "entry", "batch", "item">>

CandidateLists ==
  { <<"house", "cold", "water">>,
    <<"hello">>,
    SubSeq(ManyWords, 1, BeginnerWordCount + 1),
    SubSeq(ManyWords, 1, IntermediateWordCount + 1),
    SubSeq(ManyWords, 1, AdvancedWordCount + 1) }

\* A response that names one candidate more often than any target count
Repeated(word) == [k \in 1..(AdvancedWordCount + 1) |-> word]

SelectorBehaviours ==
  ModelBehaviours \cup
  { LanguageModel("downloading", FALSE, "none", FALSE, <<>>),
    LanguageModel("available", FALSE, "none", TRUE, Repeated("house")),
    LanguageModel("available", FALSE, "none", TRUE, <<"word", "Zebra", "page">>) }

\* selectWordsWithAI(candidateWords, difficulty, targetLanguage) is called
\* and resolves
LibSelect(candidateWords, difficulty, m) ==
  /\ call.fn = "none"
  /\ \E words \in selectWordsWithAI(candidateWords, difficulty, m) :
       returned' = <<[value |-> words, sessions |-> selectorSessions(m)]>>
  /\ call' = [fn |-> "selectWordsWithAI", args |-> <<candidateWords, difficulty, m>>]
  /\ UNCHANGED sysVars

\* The word lists translateWordsWithAI is given: selections of the fallback
\* and of the model (which keeps the model's letter case)
WordLists ==
  { <<"house", "water", "cold">>,
    <<"House", "cold">>,
    <<"constructor", "house">>,
    <<"hello">> }

TargetLanguages == {"es", "fr", "de", "ja"}

\* translateWordsWithAI(words, targetLanguage) is called and settles
LibTranslate(words, targetLanguage, m) ==
  /\ call.fn = "none"
  /\ returned' = <<[value |-> translateWordsWithAI(words, targetLanguage, m),
                    sessions |-> translatorSessions(m)]>>
  /\ call' = [fn |-> "translateWordsWithAI", args |-> <<words, targetLanguage, m>>]
  /\ UNCHANGED sysVars

\* An example generator that lets the failure show
getExampleSentenseRethrows(translateWord, m) ==
  [value |-> IF ~CreateCalled(m) THEN <<translateWord>>
             ELSE IF m.throws # "none" THEN <<"Error">>
             ELSE <<"Mi", " ", translateWord>>,
   sessions |-> [created |-> 0, destroyed |-> 0]]

\* getExampleSentense(translateWord, contextText) under the behaviour m of the
\* language model: the sentence it resolves to and the sessions it creates
\* and destroys
getExampleSentense(translateWord, m) ==
  LET created == IF CreateCalled(m) /\ m.throws # "create" THEN 1 ELSE 0
  IN  [value |-> IF ~CreateCalled(m) THEN <<translateWord>>
                 ELSE IF m.throws # "none" THEN <<translateWord, " ", "example.">>
                 ELSE <<"Mi", " ", translateWord>>,
       sessions |-> [created |-> created, destroyed |-> 0]]

\* A marker is clicked: handleClick calls getExampleSentense
LibExample(translateWord, m) ==
  /\ call.fn = "none"
  /\ returned' = <<getExampleSentense(translateWord, m)>>
  /\ call' = [fn |-> "getExampleSentense", args |-> <<translateWord, m>>]
  /\ UNCHANGED sysVars

\* Roots that hold no soma-word element: the pages, and one whose text
\* holds a word that is also a translation
PlainRoots ==
  Pages \cup
  { <<TextNode(<<"house", " ", "casa">>), CodeNode(<<"house">>), TextNode(<<" ">>)>>,
    <<TextNode(<<"House">>), TextNode(<<"cold", " ", "Hello123", " ", "house">>)>> }

\* A root with a soma-word element the page brought itself, without
\* data-original
ForeignMarker ==
  [kind |-> "soma", text |-> <<"word">>, original |-> "", translation |-> "",
   language |-> ""]

MarkedRoots ==
  { <<TextNode(<<"The", " ">>), SomaWord("House", "casa", "es"), TextNode(<<" ", "is">>)>>,
    <<ForeignMarker, TextNode(<<"house">>), SomaWord("cold", "froid", "fr")>> }

\* Translation maps, as the sequences of their entries
TranslationMaps ==
  { <<>>,
    <<<<"house", "casa">>, <<"water", "agua">>, <<"cold", "cold">>>>,
    <<<<"House", "maison">>, <<"cold", "froid">>>>,
    <<<<"hello", "hola">>>>,
    <<<<"house", "casa">>, <<"casa", "home">>>>,
    <<<<"house", "casa">>, <<"House", "casa">>>> }

\* replaceWordsInDOM(translationMap, targetLanguage, root) is called on a
\* root without markers
LibReplace(root, translationMap, targetLanguage) ==
  /\ call.fn = "none"
  /\ returned' = <<replaceWordsInDOM(translationMap, targetLanguage, root)>>
  /\ call' = [fn |-> "replaceWordsInDOM", args |-> <<root, translationMap, targetLanguage>>]
  /\ UNCHANGED sysVars

\* removeAllReplacements(root) is called on a root
LibRemove(root) ==
  /\ call.fn = "none"
  /\ returned' = <<removeAllReplacements(root)>>
  /\ call' = [fn |-> "removeAllReplacements", args |-> <<root, <<"first">>>>]
  /\ UNCHANGED sysVars

\* removeAllReplacements(root) is called on the root the call before it
\* worked on: args[2] names that call and the root it was given
LibRemoveNext ==
  /\ call.fn \in {"replaceWordsInDOM", "removeAllReplacements"}
  /\ call.args[2] # <<"again">>
  /\ returned' = <<removeAllReplacements(returned[1])>>
  /\ call' = [fn |-> "removeAllReplacements",
              args |-> <<returned[1],
                         IF call.fn = "replaceWordsInDOM"
                           THEN <<"replaced", call.args[1]>>
                           ELSE <<"again">>>>]
  /\ UNCHANGED sysVars

\* The caller has taken the result
LibReturn ==
  /\ call.fn # "none"
  /\ call' = [fn |-> "none", args |-> <<>>]
  /\ returned' = <<>>
  /\ UNCHANGED sysVars

NextLib ==
  \/ \E candidateWords \in CandidateLists, difficulty \in Difficulties,
        m \in SelectorBehaviours : LibSelect(candidateWords, difficulty, m)
  \/ \E words \in WordLists, targetLanguage \in TargetLanguages,
        m \in TranslatorBehaviours : LibTranslate(words, targetLanguage, m)
  \/ \E translateWord \in {"casa", "maison"}, m \in SelectorBehaviours :
        LibExample(translateWord, m)
  \/ \E root \in PlainRoots, translationMap \in TranslationMaps,
        targetLanguage \in TargetLanguages : LibReplace(root, translationMap, targetLanguage)
  \/ \E root \in PlainRoots \cup MarkedRoots : LibRemove(root)
  \/ LibRemoveNext
  \/ LibReturn

SpecLib == Init /\ [][NextLib]_vars

(***************************************************************************)
(* Markers and the tooltip (pages/content/index.tsx, Tooltip.tsx). The     *)
(* tooltip's x and y are the position of a marker: `at` is the marker's    *)
(* position in dom.                                                        *)
(***************************************************************************)
\* mouseover on a marker: soma-tooltip-show, handled by the tooltip's onShow
handleMouseOver(k) ==
  /\ k \in Markers(dom)
  /\ pointer = 0
  /\ pointer' = k
  /\ tooltip' = [tooltip EXCEPT !.isVisible = TRUE, !.at = k,
                                !.originalWord = dom[k].original,
                                !.translatedWord = dom[k].text[1],
                                !.expanded = FALSE, !.contextSentence = <<>>]
  /\ UNCHANGED <<clicks, clicked, popup, storage, reqs, replies, sent, tabQueue, pageVars>>

\* mouseout of the marker: soma-tooltip-hide, handled by onHide
handleMouseOut ==
  /\ pointer # 0
  /\ pointer' = 0
  /\ tooltip' = [tooltip EXCEPT !.isVisible = FALSE, !.expanded = FALSE]
  /\ UNCHANGED <<clicks, clicked, popup, storage, reqs, replies, sent, tabQueue, pageVars>>

\* click on the marker under the pointer: handleClick up to its await of
\* getExampleSentense
handleClick(k) ==
  /\ k \in Markers(dom)
  /\ pointer = k
  /\ Len(clicks) + Len(clicked) < MaxClicks
  /\ clicks' = Append(clicks, [target |-> k, originalWord |-> dom[k].original,
                                translatedWord |-> dom[k].text[1],
                                effects |-> <<"preventDefault", "stopPropagation">>])
  /\ UNCHANGED <<tooltip, pointer, clicked, popup, storage, reqs, replies, sent, tabQueue,
                 pageVars>>

\* getExampleSentense settles under the behaviour m of the language model:
\* handleClick dispatches soma-tooltip-expand (handled by onExpand), calls
\* speechSynthesis.speak and chrome.runtime.sendMessage(LOG_WORD), each of the
\* two in its own try block, and returns
ExampleResolves(i, m) ==
  LET click == clicks[i]
      example == getExampleSentense(click.translatedWord, m).value
  IN  /\ tooltip' = [tooltip EXCEPT !.isVisible = TRUE, !.expanded = TRUE,
                                    !.contextSentence = example, !.at = click.target]
      /\ clicked' = Append(clicked,
                           [target |-> click.target,
                            effects |-> click.effects \o
                                          <<"soma-tooltip-expand", "speak", "LOG_WORD">>,
                            contextSentence |-> example,
                            spoken |-> click.translatedWord,
                            logged |-> [originalWord |-> click.originalWord,
                                        translatedWord |-> click.translatedWord]])
      /\ clicks' = RemoveAt(clicks, i)
      /\ UNCHANGED <<pointer, popup, storage, reqs, replies, sent, tabQueue, pageVars>>

\* The Close button of the expanded tooltip: soma-tooltip-hide
CloseTooltip ==
  /\ tooltip.isVisible /\ tooltip.expanded
  /\ tooltip' = [tooltip EXCEPT !.isVisible = FALSE, !.expanded = FALSE]
  /\ UNCHANGED <<pointer, clicks, clicked, popup, storage, reqs, replies, sent, tabQueue,
                 pageVars>>

\* A page that is processed once, and the user's mouse on it
NextTooltip ==
  \/ \E readyState \in {"loading", "complete"} : ScriptLoad(readyState)
  \/ DOMContentLoaded
  \/ \E i \in 1..Len(runs), readFails \in BOOLEAN : RunSettings(i, readFails)
  \/ \E i \in 1..Len(runs), m \in ModelBehaviours : RunSelect(i, m)
  \/ \E i \in 1..Len(runs), m \in TranslatorBehaviours : RunTranslate(i, m)
  \/ \E k \in 1..Len(dom) : handleMouseOver(k)
  \/ handleMouseOut
  \/ \E k \in 1..Len(dom) : handleClick(k)
  \/ \E i \in 1..Len(clicks), m \in SelectorBehaviours : ExampleResolves(i, m)
  \/ CloseTooltip

SpecTooltip == Init /\ [][NextTooltip]_vars

(***************************************************************************)
(* Properties.                                                             *)
(***************************************************************************)
\* A handler that calls processPageWithAI after the script has loaded
Trigger ==
  \/ DOMContentLoaded
  \/ loaded /\ SettingsChanged
  \/ \E id \in timers : TimerFires(id)

\* C1: at most one run is in flight. A trigger that finds isProcessing true
\* starts no run and leaves the DOM, isProcessed, isProcessing and the ended
\* runs as they are; a run starts only in a trigger that finds isProcessing
\* false (nothing is queued for later); the calls made at script load start
\* exactly one run.
C1_OneRunInFlight ==
  [][ /\ Len(runs') <= 1
      /\ (Trigger /\ isProcessing
            => UNCHANGED <<dom, isProcessed, isProcessing, runs, ended>>)
      /\ (Len(runs') > Len(runs)
            => ~isProcessing /\ (Trigger \/ (~loaded /\ loaded')))
      /\ (~loaded /\ loaded' => Len(runs) = 0 /\ Len(runs') = 1) ]_vars

\* C1: a SETTINGS_CHANGED message was handled while a run was in flight and
\* started nothing
C1_Witness ==
  /\ lastTrigger.op = "SETTINGS_CHANGED"
  /\ lastTrigger.started = 0
  /\ isProcessing
  /\ Len(runs) = 1

\* Nothing is left for the controller to do: no run, no message, no timer,
\* no request
Quiescent ==
  /\ loaded
  /\ ~domReadyPending
  /\ runs = <<>>
  /\ reqs = <<>>
  /\ tabQueue = <<>>
  /\ timers = {}

\* C2: once the SETTINGS_CHANGED delivered last had isEnabled=false and the
\* controller has nothing left to do, it is Idle: isProcessing false,
\* isProcessed false, no markers on the page.
C2_DisabledReachesIdle ==
  Quiescent /\ delivered = <<FALSE>>
    => ~isProcessing /\ ~isProcessed /\ Markers(dom) = {}

\* C3: whenever no run is in flight, markers exist on the page if and only
\* if isProcessed is true.
C3_MarkersIffProcessed ==
  ~isProcessing => (isProcessed <=> Markers(dom) # {})

\* C4: whenever no run is in flight and isProcessed is true,
\* currentSettings.isEnabled is true and every marker's data-language is
\* currentSettings.targetLanguage.
C4_MarkersMatchSettings ==
  ~isProcessing /\ isProcessed
    => /\ currentSettings # <<>>
       /\ currentSettings[1].isEnabled
       /\ \A k \in Markers(dom) : dom[k].language = currentSettings[1].targetLanguage

\* C5: a run in which a step threw ends with isProcessing false, isProcessed
\* false and no markers on the page.
C5_ThrowEndsIdle ==
  ended # <<>> /\ ended[1].threw
    => ~ended[1].processing /\ ~ended[1].processed /\ ended[1].markers = 0

\* C6: while isProcessed is true a mutation notification sets no timer and a
\* debounce timer fires as a no-op; no DOM edit of the controller sets a timer.
C6_ProcessedIgnoresMutations ==
  [][ /\ (isProcessed /\ PageMutation
            => UNCHANGED <<timers, mutationTimeout, runs, dom, isProcessing>>)
      /\ (isProcessed /\ (\E id \in timers : TimerFires(id))
            => UNCHANGED <<runs, dom, isProcessing, isProcessed>>)
      /\ (dom' # dom => timers' = timers) ]_vars

\* C6: a debounce timer fired on a Processed page and started nothing
C6_Witness ==
  /\ lastTrigger.op = "timer"
  /\ lastTrigger.started = 0
  /\ isProcessed
  /\ ~isProcessing
  /\ Markers(dom) # {}

\* C7: when two UPDATE_SETTINGS requests whose payloads name different fields
\* have both been answered success:true, the stored record holds the value
\* each of them gave.
C7_NoLostUpdate ==
  reqs = <<>> /\ Len(replies) = 2
  /\ replies[1].op = "UPDATE_SETTINGS" /\ replies[2].op = "UPDATE_SETTINGS"
  /\ replies[1].success /\ replies[2].success
  /\ DOMAIN replies[1].to \cap DOMAIN replies[2].to = {}
    => /\ storage # <<>>
       /\ \A k \in 1..2 : \A f \in DOMAIN replies[k].to : storage[1][f] = replies[k].to[f]

\* C8: every write of the settings record is the write of a setUserSettings
\* call, and a read after it returns the payload's fields over what a read
\* before it returned: no field the payload does not name changes.
C8_MergeUpdate ==
  [][ storage' # storage
        => \E i \in 1..Len(reqs) :
             /\ reqs[i].pc = "write"
             /\ getUserSettings(storage', FALSE)
                  = Spread(getUserSettings(storage, FALSE), reqs[i].payload) ]_vars

\* C9: a success:true reply carries the record the store holds and comes
\* with a SETTINGS_CHANGED that carries the same record; a success:false
\* reply carries none and comes with no SETTINGS_CHANGED; no SETTINGS_CHANGED
\* is sent but with a success:true reply.
C9_ReplyMatchesStore ==
  [][ /\ (Len(replies') > Len(replies) /\ replies'[Len(replies')].op = "UPDATE_SETTINGS"
            => LET reply == replies'[Len(replies')]
               IN  IF reply.success
                     THEN /\ reply.data = storage
                          /\ tabQueue' = Append(tabQueue, reply.data[1])
                     ELSE /\ reply.data = <<>>
                          /\ tabQueue' = tabQueue)
      /\ (Len(tabQueue') > Len(tabQueue) => Len(replies') > Len(replies)) ]_vars

\* The run that ended last was started by a SETTINGS_CHANGED with
\* isEnabled=false that found the page Processed
EndedDisableOfProcessed ==
  /\ ended # <<>>
  /\ ended[1].cause.op = "SETTINGS_CHANGED"
  /\ ended[1].cause.disables
  /\ ended[1].cause.wasProcessed

\* What C10 says of the end of such a run
RestoredAndIdle ==
  /\ ended[1].markers = 0
  /\ ended[1].restored
  /\ ~ended[1].processed
  /\ ended[1].steps \cap {"extract", "select", "translate", "replace"} = {}

UnavailableLanguageModel == LanguageModel("unavailable", FALSE, "none", FALSE, <<>>)
UnavailableTranslator == Translator("unavailable", FALSE, FALSE, FALSE)

\* C11: a run that read enabled settings and found candidates goes on when
\* both models are unavailable: selection creates no session, takes the
\* result of fallbackWordSelection and reaches translation; translation
\* creates no session, inserts the static-table translations and ends the run
\* with isProcessed true and isProcessing false.
C11_UnavailableModelsStillProcess ==
  [][ \A i \in 1..Len(runs) :
        /\ (RunSelect(i, UnavailableLanguageModel)
              => /\ Len(runs') = Len(runs)
                 /\ runs'[i].pc = "translate"
                 /\ runs'[i].selectedWords # <<>>
                 /\ runs'[i].selectedWords
                      \in fallbackWordSelection(runs[i].candidateWords,
                                                runs[i].settings[1].difficulty)
                 /\ "session" \notin runs'[i].steps)
        /\ (RunTranslate(i, UnavailableTranslator)
              => /\ isProcessed' /\ ~isProcessing' /\ runs' = <<>>
                 /\ ~ended'[1].threw
                 /\ ended'[1].steps = runs[i].steps \cup {"translate", "replace"}
                 /\ dom' = replaceWordsInDOM(
                             getFallbackTranslations(runs[i].selectedWords,
                                                     runs[i].settings[1].targetLanguage),
                             runs[i].settings[1].targetLanguage, dom)) ]_vars

\* C11: a run selected, translated and inserted markers without a model
\* session and left the page Processed
C11_Witness ==
  /\ ended # <<>>
  /\ {"extract", "select", "translate", "replace"} \subseteq ended[1].steps
  /\ "session" \notin ended[1].steps
  /\ ~ended[1].threw
  /\ ended[1].markers > 0
  /\ isProcessed /\ ~isProcessing

\* The word w is in the list ws, ignoring case
IncludesIgnoringCase(ws, w) == \E k \in 1..Len(ws) : toLowerCase(ws[k]) = toLowerCase(w)

\* C12: selectWordsWithAI returns at most 15 / 30 / 50 words for beginner /
\* intermediate / advanced, each of them a candidate ignoring case.
C12_SelectionBounded ==
  call.fn = "selectWordsWithAI"
    => LET candidateWords == call.args[1]
           difficulty == call.args[2]
           words == returned[1].value
       IN  /\ Len(words) <= getWordCountForDifficulty(difficulty)
           /\ \A k \in 1..Len(words) : IncludesIgnoringCase(candidateWords, words[k])

\* The model path of selection cannot complete under behaviour m
ModelPathFails(m) ==
  \/ ~(m.availability = "available" \/ (m.availability = "downloadable" /\ m.userActivation))
  \/ m.throws # "none"
  \/ ~m.json
  \/ m.words = <<>>

\* words is a heuristic fallback result for the candidates
IsFallbackResult(words, candidateWords, difficulty) ==
  LET N == getWordCountForDifficulty(difficulty)
      selected == {words[k] : k \in 1..Len(words)}
      unselected == {candidateWords[k] : k \in 1..Len(candidateWords)} \ selected
  IN  /\ Len(words) = IF N < Len(candidateWords) THEN N ELSE Len(candidateWords)
      /\ Cardinality(selected) = Len(words)
      /\ \A k \in 1..Len(words) : \E j \in 1..Len(candidateWords) : candidateWords[j] = words[k]
      /\ difficulty = "beginner" => \A w \in selected, u \in unselected : Len(w) <= Len(u)
      /\ difficulty = "advanced" => \A w \in selected, u \in unselected : Len(w) >= Len(u)

\* C13: whenever the model path of selection cannot complete, selectWordsWithAI
\* returns min(N, number of candidates) distinct candidates, for beginner none
\* longer than an unselected one, for advanced none shorter; never an empty
\* selection of a non-empty candidate list.
C13_FallbackWhenModelFails ==
  call.fn = "selectWordsWithAI" /\ ModelPathFails(call.args[3])
    => /\ IsFallbackResult(returned[1].value, call.args[1], call.args[2])
       /\ returned[1].value # <<>>

\* C13: the model threw, the beginner fallback cut a longer candidate list to
\* its target count
C13_Witness ==
  /\ call.fn = "selectWordsWithAI"
  /\ call.args[3].throws = "prompt"
  /\ call.args[2] = "beginner"
  /\ Len(call.args[1]) > BeginnerWordCount
  /\ Len(returned[1].value) = BeginnerWordCount

\* The entry of a word in a translation map: <<>> or <<its value>>
Entry(translationMap, word) ==
  LET hits == {k \in 1..Len(translationMap) : translationMap[k][1] = word}
  IN  IF hits = {} THEN <<>> ELSE <<translationMap[CHOOSE k \in hits : TRUE][2]>>

\* C14: translateWordsWithAI always returns a map, and the map has an entry
\* for every input word.
C14_EveryWordHasEntry ==
  call.fn = "translateWordsWithAI"
    => /\ returned[1].value # <<>>
       /\ \A k \in 1..Len(call.args[1]) :
            Entry(returned[1].value[1], call.args[1][k]) # <<>>

\* C15: a word that cannot be translated maps to itself and the others keep
\* their translation: in the model path a word whose translate call fails; in
\* the fallback path a word that the static table of the language lacks.
C15_UntranslatedMapsToItself ==
  call.fn = "translateWordsWithAI" /\ returned[1].value # <<>>
    => LET words == call.args[1]
           targetLanguage == call.args[2]
           m == call.args[3]
           table == staticTranslations(targetLanguage)
           modelPath == m.availability = "available"
                        \/ (m.availability = "downloadable" /\ m.userActivation)
       IN  \A k \in 1..Len(words) :
             Entry(returned[1].value[1], words[k]) =
               IF modelPath
                 THEN IF m.coldFails /\ words[k] = "cold"
                        THEN <<words[k]>>
                        ELSE <<ModelTranslation(words[k], targetLanguage)>>
                 ELSE IF words[k] \in DOMAIN table
                        THEN <<table[words[k]]>>
                        ELSE <<words[k]>>

\* C16: replaceWordsInDOM on a root without markers followed by
\* removeAllReplacements leaves the root's text content as it was before, and
\* no marker.
C16_ReplaceRemoveRoundTrip ==
  call.fn = "removeAllReplacements" /\ call.args[2][1] = "replaced"
    => /\ textContent(returned[1]) = textContent(call.args[2][2])
       /\ Markers(returned[1]) = {}

\* C16: markers that kept a capitalised word were removed again
C16_Witness ==
  /\ call.fn = "removeAllReplacements"
  /\ call.args[2][1] = "replaced"
  /\ \E k \in Markers(call.args[1]) : call.args[1][k].original = "House"
  /\ Cardinality(Markers(call.args[1])) > 1

\* C17: removeAllReplacements changes nothing on a root without markers, and
\* called again on the root it has worked on it changes nothing.
C17_RemoveIdempotent ==
  call.fn = "removeAllReplacements"
    => /\ Markers(call.args[1]) = {} => returned[1] = call.args[1]
       /\ call.args[2] = <<"again">> => returned[1] = call.args[1]

\* C17: the second of two calls in a row, on a root that had markers and
\* keeps one without data-original
C17_Witness ==
  /\ call.fn = "removeAllReplacements"
  /\ call.args[2] = <<"again">>
  /\ Markers(returned[1]) # {}
  /\ \E k \in 1..Len(returned[1]) : returned[1][k] = TextNode(<<"cold">>)

\* C18: every session a call of the selector, the translator or the example
\* generator created has been destroyed when the call returns.
C18_SessionsReleased ==
  call.fn \in {"selectWordsWithAI", "translateWordsWithAI", "getExampleSentense"}
    => returned[1].sessions.destroyed = returned[1].sessions.created

SettingsFields == {"isEnabled", "targetLanguage", "difficulty"}

\* C19: GET_SETTINGS is answered success:true with a complete record: each
\* field holds the stored value where the store has one and the default
\* (true, 'es', 'beginner') otherwise, or the record is all defaults (the read
\* failed); the store is not changed.
C19_GetSettingsComplete ==
  [][ Len(replies') > Len(replies) /\ replies'[Len(replies')].op = "GET_SETTINGS"
        => LET reply == replies'[Len(replies')]
               defaults == [isEnabled |-> TRUE, targetLanguage |-> "es",
                            difficulty |-> "beginner"]
           IN  /\ reply.success
               /\ DOMAIN reply.data[1] = SettingsFields
               /\ \/ reply.data[1] = defaults
                  \/ \A f \in SettingsFields :
                       reply.data[1][f] = IF storage # <<>> /\ f \in DOMAIN storage[1]
                                            THEN storage[1][f] ELSE defaults[f]
               /\ storage' = storage ]_vars

\* C19: GET_SETTINGS was answered from a stored record that lacks fields
C19_Witness ==
  /\ storage = <<[targetLanguage |-> "fr"]>>
  /\ \E k \in 1..Len(replies) :
       /\ replies[k].op = "GET_SETTINGS"
       /\ replies[k].data[1].targetLanguage = "fr"
       /\ replies[k].data[1].isEnabled

\* C20: when the write of resetUserSettings or of the first-install
\* initialisation has been stored, getUserSettings returns exactly
\* {isEnabled: true, targetLanguage: 'es', difficulty: 'beginner'}.
C20_ResetGivesDefaults ==
  [][ \A i \in 1..Len(reqs) :
        reqs[i].op \in {"resetUserSettings", "onInstalled"} /\ SetDefaultsSettles(i, FALSE)
          => \A readFails \in BOOLEAN :
               getUserSettings(storage', readFails)
                 = [isEnabled |-> TRUE, targetLanguage |-> "es", difficulty |-> "beginner"] ]_vars

\* C20: resetUserSettings resolved after an update to French had been
\* answered
C20_Witness ==
  /\ Len(replies) = 2
  /\ replies[1].op = "UPDATE_SETTINGS" /\ replies[1].success
  /\ replies[1].to = [targetLanguage |-> "fr"]
  /\ replies[2].op = "resetUserSettings" /\ replies[2].success
  /\ storage # <<>>

\* The maximal runs of letters a-z in the lower-cased token t, as pairs of
\* their first and last position
LetterTokens(t) ==
  LET lower == toLowerCase(t)
      IsLetter(k) == k \in 1..Len(lower) /\ SubSeq(lower, k, k) \in Letters
  IN  {<<a, b>> \in (1..Len(lower)) \X (1..Len(lower)) :
         /\ a <= b
         /\ \A k \in a..b : IsLetter(k)
         /\ ~IsLetter(a - 1)
         /\ ~IsLetter(b + 1)}

\* The candidates of a text: its letter tokens of length >= 4 outside the
\* stop-word set
CandidatesOf(text) ==
  {w \in UNION {{SubSeq(toLowerCase(text[k]), ab[1], ab[2]) : ab \in LetterTokens(text[k])} :
                  k \in 1..Len(text)} :
     Len(w) >= 4 /\ w \notin STOP_WORDS}

\* C21: when a run has read enabled settings, the candidates it extracts from
\* the page text are a list without duplicates that holds exactly the tokens
\* of letters a-z, of length >= 4 and outside the stop-word set, that the
\* lower-cased text holds between non-letters; with none the run ends there,
\* without selecting, translating or touching the DOM, and with isProcessing
\* false.
C21_CandidatesExtracted ==
  [][ \A i \in 1..Len(runs), readFails \in BOOLEAN :
        RunSettings(i, readFails) /\ getUserSettings(storage, readFails).isEnabled
          => LET text == extractPageText(dom')
                 words == IF Len(runs') = Len(runs) THEN runs'[i].candidateWords ELSE <<>>
             IN  /\ \A j, k \in 1..Len(words) : j # k => words[j] # words[k]
                 /\ \A k \in 1..Len(words) :
                      /\ \A c \in 1..Len(words[k]) : SubSeq(words[k], c, c) \in Letters
                      /\ Len(words[k]) >= 4
                      /\ words[k] \notin STOP_WORDS
                 /\ {words[k] : k \in 1..Len(words)} = CandidatesOf(text)
                 /\ text = <<>> => words = <<>>
                 /\ IF words = <<>>
                      THEN /\ Len(runs') = Len(runs) - 1
                           /\ ~isProcessing'
                           /\ dom' = dom
                           /\ ended'[1].steps \cap {"select", "translate", "replace"} = {}
                      ELSE runs'[i].pc = "select" ]_vars

\* C21: a run extracted three candidates from a page that holds one of them
\* three times, once capitalised, beside short words and stop words
C21_Witness ==
  /\ Len(runs) = 1
  /\ runs[1].pc = "select"
  /\ runs[1].candidateWords = <<"house", "cold", "water">>
  /\ Cardinality({k \in 1..Len(dom) : dom[k].kind = "text" /\ MatchPositions(dom[k].text, "house") # {}}) = 2

\* C22: when the popup's updateSettings has finished, on the success path or
\* after reverting through loadSettings, the settings it shows are the
\* persisted settings and isSaving is false.
C22_PopupShowsPersisted ==
  [][ popup'.updates > popup.updates
        => /\ ~popup'.isSaving
           /\ popup'.settings = getUserSettings(storage', FALSE) ]_vars

C24_MutationDebounce ==
  [][ /\ (~(timers' \subseteq timers)
            => /\ currentSettings' # <<>> /\ currentSettings'[1].isEnabled
               /\ ~isProcessing'
               /\ ~isProcessed'
               /\ mutationTimeout' # mutationTimeout
               /\ mutationTimeout \notin timers'
               /\ timers' = {mutationTimeout'}
               /\ quiet' = 0)
      /\ (PageMutation /\ currentSettings # <<>> /\ currentSettings[1].isEnabled
            /\ ~isProcessing /\ ~isProcessed
            => ~(timers' \subseteq timers))
      /\ Cardinality(timers') <= 1
      /\ \A id \in timers :
           TimerFires(id) => id = mutationTimeout /\ quiet = 2 ]_vars

\* C24: a notification was accepted while a timer was pending, cancelled it
\* and set a new one
C24_Witness ==
  /\ lastTrigger.op = "mutation"
  /\ lastTrigger.cancelled
  /\ timers = {mutationTimeout}
  /\ timerAge[mutationTimeout] = 0
  /\ quiet = 0

\* The tokens of a root in document order, a marker counting as the token it
\* replaced, each with whether it is wrapped in a marker
RECURSIVE Flat(_)
Flat(d) ==
  IF d = <<>> THEN <<>>
  ELSE (IF Head(d).kind = "soma"
          THEN <<[token |-> Head(d).original, marked |-> TRUE]>>
          ELSE [k \in 1..Len(Head(d).text) |-> [token |-> Head(d).text[k], marked |-> FALSE]])
       \o Flat(Tail(d))

\* The roots before and after each word of the map is processed
RECURSIVE Passes(_, _, _)
Passes(translationMap, targetLanguage, d) ==
  IF translationMap = <<>> THEN <<d>>
  ELSE <<d>> \o Passes(Tail(translationMap), targetLanguage,
                       ReplaceOneWord(d, Head(translationMap)[1], Head(translationMap)[2],
                                      targetLanguage))

\* C25: in one replaceWordsInDOM invocation, for each word of the map and
\* each eligible text node that exists when the word is processed and holds
\* it, the first occurrence of the word in the node is wrapped in a marker
\* when the word has been processed, and every further occurrence in that
\* node is still plain text when the invocation returns.
C25_FirstOccurrenceOnly ==
  call.fn = "replaceWordsInDOM"
    => LET translationMap == call.args[2]
           passes == Passes(translationMap, call.args[3], call.args[1])
           final == Flat(returned[1])
       IN  \A j \in 1..Len(translationMap) :
             LET d == passes[j]
                 word == translationMap[j][1]
             IN  \A k \in 1..Len(d) :
                   LET hits == MatchPositions(d[k].text, word)
                       offset == Len(Flat(SubSeq(d, 1, k - 1)))
                   IN  d[k].kind = "text" /\ ~IsBlank(d[k].text) /\ hits # {}
                         => /\ Flat(passes[j + 1])[offset + Min(hits)].marked
                            /\ final[offset + Min(hits)].marked
                            /\ \A h \in hits \ {Min(hits)} : ~final[offset + h].marked

\* C30: whenever the tooltip is expanded, the example sentence it shows is
\* one that getExampleSentense returns for the translated word it shows.
C30_ExampleMatchesWord ==
  tooltip.isVisible /\ tooltip.expanded
    => \E m \in SelectorBehaviours :
         tooltip.contextSentence = getExampleSentense(tooltip.translatedWord, m).value

\* What handleClick does to the event before it awaits the example
Cancelled == <<"preventDefault", "stopPropagation">>

\* C26: a click on a marker cancels the default action; when the example
\* generation has settled, whatever the model's availability and whether or
\* not it threw, the same click has then dispatched one soma-tooltip-expand
\* with the sentence, spoken the translated word and sent one LOG_WORD, in
\* this order, and on a failure the sentence is the translated word or the
\* translated word followed by "example.".
C26_ClickExpandsSpeaksLogs ==
  [][ /\ \A k \in 1..Len(dom) :
           handleClick(k) => clicks'[Len(clicks')].effects = Cancelled
      /\ \A i \in 1..Len(clicks), m \in SelectorBehaviours :
           ExampleResolves(i, m) =>
             LET c == clicked'[Len(clicked')]
                 word == dom[c.target].text[1]
             IN  /\ c.effects = Cancelled \o <<"soma-tooltip-expand", "speak", "LOG_WORD">>
                 /\ tooltip'.expanded /\ tooltip'.contextSentence = c.contextSentence
                 /\ c.spoken = word
                 /\ c.logged = [originalWord |-> dom[c.target].original,
                                translatedWord |-> word]
                 /\ c.contextSentence # <<"Error">>
                 /\ (~CreateCalled(m) \/ m.throws # "none")
                      => c.contextSentence \in {<<word>>, <<word, " ", "example.">>} ]_vars

\* C26: a click whose example generation threw has returned after the three
\* effects, and one whose model was not usable has too.
C26_Witness ==
  /\ \E i \in 1..Len(clicked) :
       /\ clicked[i].contextSentence = <<clicked[i].spoken, " ", "example.">>
       /\ Len(clicked[i].effects) = 5
  /\ \E i \in 1..Len(clicked) : clicked[i].contextSentence = <<clicked[i].spoken>>


\* C27: isProcessing is true exactly while a run is in flight, and, when
\* every awaited call eventually returns or throws, a run that has set it
\* true sets it false again.
C27_ProcessingReleased ==
  /\ [](isProcessing <=> runs # <<>>)
  /\ isProcessing ~> ~isProcessing

\* C27: a run that ended in the catch block has released isProcessing.
C27_Witness ==
  /\ ended # <<>>
  /\ ended[1].threw
  /\ ~isProcessing
  /\ runs = <<>>

\* The run that ended last was started on a page not yet processed by the
\* script's load or by DOMContentLoaded, read enabled settings and found at
\* least one candidate word
EndedInitialWithCandidates ==
  /\ ended # <<>>
  /\ ended[1].cause.op \in {"load", "DOMContentLoaded"}
  /\ ~ended[1].cause.wasProcessed
  /\ ended[1].enabled
  /\ "select" \in ended[1].steps

\* C28: an initial run that read enabled settings and found a candidate word
\* ends with isProcessed true, whatever the models did.
C28_InitialRunProcesses == EndedInitialWithCandidates => ended[1].processed

\* The text of the page when every marker is replaced by its data-original
OriginalText(d) == [k \in 1..Len(Flat(d)) |-> Flat(d)[k].token]

====
